---- MODULE Spec2Model ----
(***************************************************************************)
(* The transaction store and query engine of the personal finance ledger:  *)
(* class FinanceManager of src/main.py (console variant, with logging and  *)
(* filtered listing) and of src/main4.py (chart variant, with the monthly  *)
(* breakdown).  The variable `variant` says which of the two classes the   *)
(* running program uses; where the two differ the model branches on it.    *)
(*                                                                         *)
(* Text (Python str) is a sequence of one-character strings, so that       *)
(* lower(), strip(), strptime() and strftime() are computed character by   *)
(* character.  Amounts are whole numbers of currency units.                *)
(***************************************************************************)
EXTENDS Integers, Sequences, FiniteSets, TLC

VARIABLES variant, phase, transactions, file, last, returned, corruptPending,
          pc, req, loc

vars == <<variant, phase, transactions, file, last, returned, corruptPending,
          pc, req, loc>>

\* ------------------------------------------------------------------ bounds

\* Most records the in-memory list may hold before add_transaction is no
\* longer offered.
MaxTx == 2

\* ------------------------------------------------------------- characters

DigitChars == <<"0", "1", "2", "3", "4", "5", "6", "7", "8", "9">>

IsDigit(c) == \E i \in 1..10 : DigitChars[i] = c

DigitVal(c) == (CHOOSE i \in 1..10 : DigitChars[i] = c) - 1

DigitChar(n) == DigitChars[n + 1]

UpperChars == <<"A", "B", "C", "D", "E", "F", "G", "H", "I", "J", "K", "L", "M",
                "N", "O", "P", "Q", "R", "S", "T", "U", "V", "W", "X", "Y", "Z">>

LowerChars == <<"a", "b", "c", "d", "e", "f", "g", "h", "i", "j", "k", "l", "m",
                "n", "o", "p", "q", "r", "s", "t", "u", "v", "w", "x", "y", "z">>

\* str.lower() on one character.
LowerChar(c) ==
    IF \E i \in 1..26 : UpperChars[i] = c
    THEN LowerChars[CHOOSE i \in 1..26 : UpperChars[i] = c]
    ELSE c

\* str.lower()
Lower(s) == [i \in 1..Len(s) |-> LowerChar(s[i])]

IsSpace(c) == c = " "

RECURSIVE LStrip(_)
LStrip(s) == IF s # <<>> /\ IsSpace(Head(s)) THEN LStrip(Tail(s)) ELSE s

RECURSIVE RStrip(_)
RStrip(s) ==
    IF s # <<>> /\ IsSpace(s[Len(s)]) THEN RStrip(SubSeq(s, 1, Len(s) - 1)) ELSE s

\* str.strip()
Strip(s) == RStrip(LStrip(s))

\* The code point order of the characters a month key is made of.
CharOrd(c) == IF c = "-" THEN 0 ELSE 1 + DigitVal(c)

\* Python's < on two strings of digits and "-": lexicographic by code point.
RECURSIVE TextLess(_, _)
TextLess(a, b) ==
    IF b = <<>> THEN FALSE
    ELSE IF a = <<>> THEN TRUE
    ELSE IF Head(a) = Head(b) THEN TextLess(Tail(a), Tail(b))
    ELSE CharOrd(Head(a)) < CharOrd(Head(b))

\* None, as the value of an Optional[str] argument: no text equals it.
None == <<"<None>">>

\* Python truthiness of an Optional[str]: None and "" are false.
Truthy(x) == x # None /\ x # <<>>

\* ------------------------------------------------------------------ dates

AllDigits(s) == \A i \in 1..Len(s) : IsDigit(s[i])

RECURSIVE DigitsValue(_)
DigitsValue(s) ==
    IF s = <<>> THEN 0
    ELSE 10 * DigitsValue(SubSeq(s, 1, Len(s) - 1)) + DigitVal(s[Len(s)])

\* %m of _strptime: 1[0-2]|0[1-9]|[1-9]
MatchesMonth(s) ==
    /\ Len(s) \in {1, 2}
    /\ AllDigits(s)
    /\ IF Len(s) = 1 THEN DigitsValue(s) \in 1..9
       ELSE DigitsValue(s) \in 1..12

\* %d of _strptime: 3[01]|[12]\d|0[1-9]|[1-9]| [1-9]
MatchesDay(s) ==
    \/ Len(s) = 1 /\ AllDigits(s) /\ DigitsValue(s) \in 1..9
    \/ Len(s) = 2 /\ AllDigits(s) /\ DigitsValue(s) \in 1..31
    \/ Len(s) = 2 /\ s[1] = " " /\ IsDigit(s[2]) /\ DigitVal(s[2]) \in 1..9

IsLeap(y) == (y % 4 = 0 /\ y % 100 # 0) \/ y % 400 = 0

DaysInMonth(y, m) ==
    IF m = 2 THEN (IF IsLeap(y) THEN 29 ELSE 28)
    ELSE IF m \in {4, 6, 9, 11} THEN 30
    ELSE 31

NoDate == [ok |-> FALSE, y |-> 0, m |-> 0, d |-> 0]

\* datetime.strptime(s, "%Y-%m-%d"): four digits, "-", a month, "-", a day and
\* nothing after it, then the calendar check of datetime(y, m, d).  ok = FALSE
\* is the ValueError.
strptime(s) ==
    LET fits(ml, dl) ==
            /\ Len(s) = 6 + ml + dl
            /\ AllDigits(SubSeq(s, 1, 4))
            /\ s[5] = "-"
            /\ MatchesMonth(SubSeq(s, 6, 5 + ml))
            /\ s[6 + ml] = "-"
            /\ MatchesDay(SubSeq(s, 7 + ml, 6 + ml + dl))
        splits == {p \in {1, 2} \X {1, 2} : fits(p[1], p[2])}
    IN  IF splits = {} THEN NoDate
        ELSE LET p == CHOOSE q \in splits : TRUE
                 y == DigitsValue(SubSeq(s, 1, 4))
                 m == DigitsValue(SubSeq(s, 6, 5 + p[1]))
                 d == DigitsValue(LStrip(SubSeq(s, 7 + p[1], 6 + p[1] + p[2])))
             IN  IF y >= 1 /\ d <= DaysInMonth(y, m)
                 THEN [ok |-> TRUE, y |-> y, m |-> m, d |-> d]
                 ELSE NoDate

\* datetime >= datetime
DateGeq(a, b) ==
    \/ a.y > b.y
    \/ a.y = b.y /\ a.m > b.m
    \/ a.y = b.y /\ a.m = b.m /\ a.d >= b.d

\* dt.strftime("%Y-%m")
MonthKey(dt) ==
    << DigitChar(dt.y \div 1000), DigitChar((dt.y \div 100) % 10),
       DigitChar((dt.y \div 10) % 10), DigitChar(dt.y % 10), "-",
       DigitChar(dt.m \div 10), DigitChar(dt.m % 10) >>

\* ------------------------------------------------------------- the record

entrada == <<"e", "n", "t", "r", "a", "d", "a">>

saida == <<"s", "a", "i", "d", "a">>

Outros == <<"O", "u", "t", "r", "o", "s">>

\* @dataclass Transaction
Transaction(id, date, type, category, description, amount) ==
    [id |-> id, date |-> date, type |-> type, category |-> category,
     description |-> description, amount |-> amount]

\* ---------------------------------------------------------- the JSON file

\* A JSON value of the keys "id" and "amount": a number, a string, null, or
\* the key missing from the object.
JNum(n) == [t |-> "num", n |-> n, s |-> <<>>]

JStr(s) == [t |-> "str", n |-> 0, s |-> s]

JNull == [t |-> "null", n |-> 0, s |-> <<>>]

JMissing == [t |-> "missing", n |-> 0, s |-> <<>>]

\* One object of the file's array.  The four text keys hold JSON strings.
JObj(id, date, type, category, description, amount) ==
    [id |-> id, date |-> date, type |-> type, category |-> category,
     description |-> description, amount |-> amount]

\* The backing file: absent, malformed text ("corrupt": what was there at
\* start-up; "partial": what a write that failed after open("w") truncated the
\* file leaves), or a JSON array of objects.
FileAbsent == [st |-> "absent", data |-> <<>>]

FileCorrupt == [st |-> "corrupt", data |-> <<>>]

FilePartial == [st |-> "partial", data |-> <<>>]

FileJson(data) == [st |-> "json", data |-> data]

\* int(str) and float(str) on a string of the model: surrounding blanks, an
\* optional sign, then digits.
NumberText(s) ==
    LET b == Strip(s)
        u == IF b # <<>> /\ Head(b) \in {"-", "+"} THEN Tail(b) ELSE b
    IN  IF u # <<>> /\ AllDigits(u)
        THEN [ok |-> TRUE,
              n |-> IF Head(b) = "-" THEN 0 - DigitsValue(u) ELSE DigitsValue(u)]
        ELSE [ok |-> FALSE, n |-> 0]

\* int(data["id"]) and float(data["amount"]): ok = FALSE is the KeyError of a
\* missing key, the TypeError of null or the ValueError of a non-numeric string.
ToNumber(v) ==
    IF v.t = "num" THEN [ok |-> TRUE, n |-> v.n]
    ELSE IF v.t = "str" THEN NumberText(v.s)
    ELSE [ok |-> FALSE, n |-> 0]

\* Transaction.from_dict: no field is validated, only converted.
from_dict(data) ==
    LET id == ToNumber(data.id)
        amount == ToNumber(data.amount)
    IN  [ok |-> id.ok /\ amount.ok,
         tx |-> Transaction(id.n, data.date, data.type, data.category,
                            data.description, amount.n)]

\* dataclasses.asdict
asdict(t) ==
    JObj(JNum(t.id), t.date, t.type, t.category, t.description, JNum(t.amount))

\* What _load leaves in self.transactions for a file that exists: the converted
\* records, or [] when json.load or any from_dict raises (both classes catch
\* every Exception there).
LoadedTransactions(f) ==
    IF f.st = "json" /\ \A i \in 1..Len(f.data) : from_dict(f.data[i]).ok
    THEN [i \in 1..Len(f.data) |-> from_dict(f.data[i]).tx]
    ELSE <<>>

\* Whether _load took the except branch.
LoadFailed(f) ==
    ~(f.st = "json" /\ \A i \in 1..Len(f.data) : from_dict(f.data[i]).ok)

\* What the write of _save leaves in the file: io = "ok" the dumped array,
\* "open_fails" what was there (open("w") raised), "write_fails" a truncated
\* file (json.dump or the close raised after open("w") emptied it).
WrittenFile(f, txs, io) ==
    IF io = "ok" THEN FileJson([i \in 1..Len(txs) |-> asdict(txs[i])])
    ELSE IF io = "open_fails" THEN f
    ELSE FilePartial

\* _load with the except branch also calling _save.
FileAfterLoad_Rewrites(f, io) ==
    IF f.st = "absent" \/ LoadFailed(f) THEN WrittenFile(f, <<>>, io) ELSE f

\* The file as _load leaves it: only an absent file is written (by _save, with
\* the empty list); an unreadable one is left as found.
FileAfterLoad(f, io) ==
    IF f.st = "absent" THEN WrittenFile(f, <<>>, io) ELSE f

\* Whether _save raises to its caller: main.py logs and swallows every
\* Exception, main4.py has no handler.
SaveRaises(v, io) == v = "main4" /\ io # "ok"

IoOutcomes == {"ok", "open_fails", "write_fails"}

\* ------------------------------------------------------------- the store

RECURSIVE MaxId(_)
MaxId(txs) ==
    IF Len(txs) = 1 THEN txs[1].id
    ELSE LET m == MaxId(Tail(txs)) IN IF txs[1].id > m THEN txs[1].id ELSE m

\* _next_id counting the records instead of taking the largest id.
next_id_ByLength(txs) == Len(txs) + 1

\* FinanceManager._next_id
next_id(txs) == IF txs = <<>> THEN 1 ELSE MaxId(txs) + 1

\* The category add_transaction stores: main.py strips, main4.py strips and
\* replaces an empty result by "Outros".
StoredCategory(v, category) ==
    IF v = "main4" /\ Strip(category) = <<>> THEN Outros ELSE Strip(category)

\* add_transaction without its check of the amount.
ValidationError_NoAmountCheck(type_, amount, date) ==
    IF Lower(type_) \notin {entrada, saida} THEN "ValueError: tipo"
    ELSE IF date # None /\ ~strptime(date).ok THEN "ValueError: data"
    ELSE ""

\* The checks of add_transaction, in the code's order; "" when all pass.
ValidationError(type_, amount, date) ==
    IF Lower(type_) \notin {entrada, saida} THEN "ValueError: tipo"
    ELSE IF amount <= 0 THEN "ValueError: valor"
    ELSE IF date # None /\ ~strptime(date).ok THEN "ValueError: data"
    ELSE ""

\* The record add_transaction builds once the checks have passed.
NewTransaction(v, txs, type_, category, description, amount, date, today) ==
    Transaction(next_id(txs),
                IF date = None THEN today ELSE date,
                Lower(type_),
                StoredCategory(v, category),
                Strip(description),
                amount)

\* ------------------------------------------------------------ the queries

\* One date bound of list_transactions (main.py): geq = TRUE is the start_date
\* step, FALSE the end_date step.  The try block holds both the parse of the
\* bound and the comprehension that parses every record's date, so a ValueError
\* from either leaves `filtered` as it was.
DateStep(filtered, bound, geq) ==
    IF ~Truthy(bound) THEN filtered
    ELSE IF ~strptime(bound).ok THEN filtered
    ELSE IF \E i \in 1..Len(filtered) : ~strptime(filtered[i].date).ok
         THEN filtered
    ELSE LET d == strptime(bound)
             keep(t) == IF geq THEN DateGeq(strptime(t.date), d)
                        ELSE DateGeq(d, strptime(t.date))
         IN  SelectSeq(filtered, keep)

TypeStep(filtered, type_) ==
    IF ~Truthy(type_) THEN filtered
    ELSE LET keep(t) == t.type = Lower(type_) IN SelectSeq(filtered, keep)

CategoryStep(filtered, category) ==
    IF ~Truthy(category) THEN filtered
    ELSE LET keep(t) == Lower(t.category) = Lower(category)
         IN  SelectSeq(filtered, keep)

\* FinanceManager.list_transactions of main.py
list_transactions(txs, start_date, end_date, type_, category) ==
    CategoryStep(
        TypeStep(DateStep(DateStep(txs, start_date, TRUE), end_date, FALSE),
                 type_),
        category)

\* sum(t.amount for t in txs if t.type == type), left to right from 0.
RECURSIVE SumOfType(_, _)
SumOfType(txs, type) ==
    IF txs = <<>> THEN 0
    ELSE LET t == txs[Len(txs)]
             rest == SumOfType(SubSeq(txs, 1, Len(txs) - 1), type)
         IN  IF t.type = type THEN rest + t.amount ELSE rest

\* get_summary adding the expenses to the balance.
get_summary_SaldoAdds(txs) ==
    LET total_entradas == SumOfType(txs, entrada)
        total_saidas == SumOfType(txs, saida)
    IN  [total_entradas |-> total_entradas,
         total_saidas |-> total_saidas,
         saldo |-> total_entradas + total_saidas,
         qtd_transacoes |-> Len(txs)]

\* FinanceManager.get_summary of main.py
get_summary(txs) ==
    LET total_entradas == SumOfType(txs, entrada)
        total_saidas == SumOfType(txs, saida)
    IN  [total_entradas |-> total_entradas,
         total_saidas |-> total_saidas,
         saldo |-> total_entradas - total_saidas,
         qtd_transacoes |-> Len(txs)]

\* resumo[chave][campo] += amount on the defaultdict, kept as the sequence of
\* its items in insertion order: a key is created by its first access.
AddToMonth(resumo, chave, campo, amount) ==
    LET bump(e) == IF campo = "entradas"
                   THEN [e EXCEPT !.entradas = @ + amount]
                   ELSE [e EXCEPT !.saidas = @ + amount]
        fresh == [mes |-> chave, entradas |-> 0, saidas |-> 0, saldo |-> 0]
    IN  IF \E i \in 1..Len(resumo) : resumo[i].mes = chave
        THEN [i \in 1..Len(resumo) |->
                 IF resumo[i].mes = chave THEN bump(resumo[i]) ELSE resumo[i]]
        ELSE Append(resumo, bump(fresh))

\* The first loop of _monthly_summary over txs, from the empty defaultdict.
\* Only the "entrada" and "saida" branches touch resumo[chave].
RECURSIVE MonthlyLoop(_)
MonthlyLoop(txs) ==
    IF txs = <<>> THEN <<>>
    ELSE LET t == txs[Len(txs)]
             resumo == MonthlyLoop(SubSeq(txs, 1, Len(txs) - 1))
             chave == MonthKey(strptime(t.date))
         IN  IF t.type = entrada THEN AddToMonth(resumo, chave, "entradas", t.amount)
             ELSE IF t.type = saida THEN AddToMonth(resumo, chave, "saidas", t.amount)
             ELSE resumo

\* sorted(resumo.items(), key=lambda item: item[0]): insertion into the sorted
\* prefix, stable.
RECURSIVE SortedByMonth(_)
SortedByMonth(items) ==
    IF items = <<>> THEN <<>>
    ELSE LET e == items[Len(items)]
             done == SortedByMonth(SubSeq(items, 1, Len(items) - 1))
             before(x) == ~TextLess(e.mes, x.mes)
             after(x) == TextLess(e.mes, x.mes)
         IN  SelectSeq(done, before) \o <<e>> \o SelectSeq(done, after)

\* FinanceManager._monthly_summary of main4.py: the OrderedDict as the sequence
\* of its items.  strptime on a stored date that does not parse raises
\* ValueError out of the method.
monthly_summary(txs) ==
    IF \E i \in 1..Len(txs) : ~strptime(txs[i].date).ok
    THEN [outcome |-> "ValueError", ret |-> <<>>]
    ELSE LET resumo == MonthlyLoop(txs)
             withSaldo == [i \in 1..Len(resumo) |->
                              [resumo[i] EXCEPT !.saldo =
                                   resumo[i].entradas - resumo[i].saidas]]
         IN  [outcome |-> "ok", ret |-> SortedByMonth(withSaldo)]

\* A quotient of two numbers, kept exact: Python's a / b on the amounts.
Quotient(a, b) == [num |-> a, den |-> b]

\* The float 0.0 the code returns instead of dividing by zero.
ZeroQuotient == [num |-> 0, den |-> 1]

\* sum(x) over a sequence of records with the field total.
RECURSIVE SumOfTotals(_)
SumOfTotals(items) ==
    IF items = <<>> THEN 0
    ELSE SumOfTotals(SubSeq(items, 1, Len(items) - 1)) + items[Len(items)].total

\* d[key] += amount on a defaultdict(float), kept as the sequence of its items
\* in insertion order.
AddToKey(d, key, amount) ==
    IF \E i \in 1..Len(d) : d[i].key = key
    THEN [i \in 1..Len(d) |->
             IF d[i].key = key THEN [d[i] EXCEPT !.total = @ + amount] ELSE d[i]]
    ELSE Append(d, [key |-> key, total |-> amount])

\* The loop of _monthly_expenses over txs once every expense date has parsed.
RECURSIVE MonthlyExpensesLoop(_)
MonthlyExpensesLoop(txs) ==
    IF txs = <<>> THEN <<>>
    ELSE LET t == txs[Len(txs)]
             d == MonthlyExpensesLoop(SubSeq(txs, 1, Len(txs) - 1))
         IN  IF t.type # saida THEN d
             ELSE AddToKey(d, MonthKey(strptime(t.date)), t.amount)

\* _monthly_expenses counting every record's month, not only the expenses'.
monthly_expenses_AllMonths(txs) ==
    IF \E i \in 1..Len(txs) : ~strptime(txs[i].date).ok
    THEN [outcome |-> "ValueError", ret |-> <<>>]
    ELSE LET all == [i \in 1..Len(txs) |->
                        IF txs[i].type = saida THEN txs[i]
                        ELSE [txs[i] EXCEPT !.type = saida, !.amount = 0]]
         IN  [outcome |-> "ok", ret |-> MonthlyExpensesLoop(all)]

\* FinanceManager._monthly_expenses of main4.py: records that are no expense
\* are skipped before their date is parsed; strptime on an expense's stored
\* date that does not parse raises ValueError out of the method.
monthly_expenses(txs) ==
    IF \E i \in 1..Len(txs) : txs[i].type = saida /\ ~strptime(txs[i].date).ok
    THEN [outcome |-> "ValueError", ret |-> <<>>]
    ELSE [outcome |-> "ok", ret |-> MonthlyExpensesLoop(txs)]

\* category_expenses folding the categories' letter case.
category_expenses_IgnoringCase(txs) ==
    IF txs = <<>> THEN <<>>
    ELSE LET low == [i \in 1..Len(txs) |->
                        [txs[i] EXCEPT !.category = Lower(txs[i].category)]]
             RECURSIVE loop(_)
             loop(ts) ==
                 IF ts = <<>> THEN <<>>
                 ELSE LET t == ts[Len(ts)]
                          d == loop(SubSeq(ts, 1, Len(ts) - 1))
                      IN  IF t.type = saida THEN AddToKey(d, t.category, t.amount)
                          ELSE d
         IN  loop(low)

\* FinanceManager.category_expenses of main4.py: the dict as the sequence of
\* its items.
RECURSIVE category_expenses(_)
category_expenses(txs) ==
    IF txs = <<>> THEN <<>>
    ELSE LET t == txs[Len(txs)]
             categorias == category_expenses(SubSeq(txs, 1, Len(txs) - 1))
         IN  IF t.type = saida THEN AddToKey(categorias, t.category, t.amount)
             ELSE categorias

\* FinanceManager.get_basic_stats of main4.py.  The ValueError of
\* _monthly_expenses leaves the method.
get_basic_stats(txs) ==
    LET total_receitas == SumOfType(txs, entrada)
        total_despesas == SumOfType(txs, saida)
        isGasto(t) == t.type = saida
        gastos == SelectSeq(txs, isGasto)
        media_gasto_transacao ==
            IF gastos # <<>> THEN Quotient(SumOfType(gastos, saida), Len(gastos))
            ELSE ZeroQuotient
        gastos_por_mes == monthly_expenses(txs)
        media_gasto_mensal ==
            IF gastos_por_mes.ret # <<>>
            THEN Quotient(SumOfTotals(gastos_por_mes.ret), Len(gastos_por_mes.ret))
            ELSE ZeroQuotient
    IN  IF gastos_por_mes.outcome # "ok"
        THEN [outcome |-> gastos_por_mes.outcome, ret |-> <<>>]
        ELSE [outcome |-> "ok",
              ret |-> << [total_receitas |-> total_receitas,
                          total_despesas |-> total_despesas,
                          saldo_atual |-> total_receitas - total_despesas,
                          media_gasto_transacao |-> media_gasto_transacao,
                          media_gasto_mensal |-> media_gasto_mensal,
                          qtd_transacoes |-> Len(txs)] >>]

\* list_transactions filtering the store's own list in place.
TransactionsAfterList_InPlace(txs, filtered) == filtered

\* self.transactions after list_transactions: the method rebinds its local
\* `filtered` to new lists (main4.py returns a copy) and never assigns to
\* self.transactions.
TransactionsAfterList(txs, filtered) == txs

\* ------------------------------------------------------------- the inputs

D_2025_01_10 == <<"2", "0", "2", "5", "-", "0", "1", "-", "1", "0">>

D_2025_01_15 == <<"2", "0", "2", "5", "-", "0", "1", "-", "1", "5">>

D_2025_02_01 == <<"2", "0", "2", "5", "-", "0", "2", "-", "0", "1">>

\* Month and day without the leading zero: strptime takes it.
D_2025_1_5 == <<"2", "0", "2", "5", "-", "1", "-", "5">>

\* No such day.
D_2025_02_30 == <<"2", "0", "2", "5", "-", "0", "2", "-", "3", "0">>

\* What datetime.now().strftime("%Y-%m-%d") gives when date is None.
Today == <<"2", "0", "2", "5", "-", "0", "3", "-", "1", "5">>

Food == <<"F", "o", "o", "d">>

food == <<"f", "o", "o", "d">>

FOOD == <<"F", "O", "O", "D">>

Pay == <<"P", "a", "y">>

AddInput(type_, category, description, amount, date) ==
    [type_ |-> type_, category |-> category, description |-> description,
     amount |-> amount, date |-> date]

\* Calls of add_transaction that pass its checks.
GoodInputs ==
    { AddInput(entrada, Pay, <<"d">>, 1000, D_2025_01_10),
      AddInput(saida, Food, <<"d">>, 300, D_2025_01_15),
      AddInput(saida, <<" ">> \o food, <<"d", " ">>, 200, D_2025_02_01),
      AddInput(<<"E", "n", "t", "r", "a", "d", "a">>, <<" ">>, <<>>, 300, None),
      AddInput(saida, Food, <<"d">>, 200, D_2025_1_5) }

\* Calls that fail one check each.
BadInputs ==
    { AddInput(<<"o", "u", "t", "r", "o">>, Food, <<"d">>, 300, D_2025_01_15),
      AddInput(saida, Food, <<"d">>, 0, D_2025_01_15),
      AddInput(entrada, Pay, <<"d">>, 0 - 5, None),
      AddInput(saida, Food, <<"d">>, 300, D_2025_02_30),
      AddInput(saida, Food, <<"d">>, 300, <<>>) }

AddInputs == GoodInputs \cup BadInputs

Filter(start_date, end_date, type_, category) ==
    [start_date |-> start_date, end_date |-> end_date, type_ |-> type_,
     category |-> category]

\* Calls of list_transactions (main.py).
Filters ==
    { Filter(None, None, None, None),
      Filter(D_2025_01_15, None, None, None),
      Filter(None, D_2025_01_15, None, None),
      Filter(D_2025_01_10, D_2025_01_15, saida, None),
      Filter(None, None, saida, None),
      Filter(None, None, None, food),
      Filter(None, None, None, FOOD),
      Filter(D_2025_1_5, None, None, Food),
      Filter(D_2025_02_30, None, entrada, None) }

\* Backing files found at start-up.
GoodObj == JObj(JNum(1), D_2025_01_10, entrada, Pay, <<"d">>, JNum(1000))

InitialFiles ==
    { FileAbsent,
      FileCorrupt,
      FileJson(<<>>),
      FileJson(<<GoodObj>>),
      \* ids and amounts written as strings, and the same id twice
      FileJson(<<JObj(JStr(<<"5">>), D_2025_01_15, saida, Food, <<"d">>, JStr(<<"3", "0", "0">>)),
                 JObj(JNum(5), D_2025_02_01, saida, food, <<"d">>, JNum(200))>>),
      \* a negative amount and a kind in capitals
      FileJson(<<JObj(JNum(2), D_2025_01_15, <<"S", "A", "I", "D", "A">>, Food, <<"d">>, JNum(0 - 5))>>),
      \* a date that is no calendar date
      FileJson(<<GoodObj, JObj(JNum(3), D_2025_02_30, saida, Food, <<"d">>, JNum(300))>>),
      \* valid JSON of the wrong shape: an object without "amount"
      FileJson(<<JObj(JNum(1), D_2025_01_10, entrada, Pay, <<"d">>, JMissing)>>) }

Variants == {"main", "main4"}

Threads == {1, 2}

NoReq == AddInput(<<>>, <<>>, <<>>, 0, None)

NoLoc == [tx |-> <<>>, data |-> <<>>]

\* The result of the last call: the operation, how it ended ("ok" or the
\* exception), the value returned (as a sequence), the arguments and, for a
\* call that saved, how the write went.
Result(op, outcome, ret, arg, io) ==
    [op |-> op, outcome |-> outcome, ret |-> ret, arg |-> arg, io |-> io]

\* ---------------------------------------------------------------- actions

Init ==
    /\ variant \in Variants
    /\ phase = "new"
    /\ transactions = <<>>
    /\ file \in InitialFiles
    /\ last = Result("none", "ok", <<>>, <<>>, "none")
    /\ returned = <<>>
    /\ corruptPending = FALSE
    /\ pc = [t \in Threads |-> "idle"]
    /\ req = [t \in Threads |-> NoReq]
    /\ loc = [t \in Threads |-> NoLoc]

\* FinanceManager.__init__ and _load: a (re)start of the program on the file as
\* it is.  An absent file is created by _save; in main4.py a failure of that
\* write leaves the constructor by the exception, and no store exists.
Load ==
    /\ \E io \in IoOutcomes :
        /\ file.st # "absent" => io = "ok"
        /\ file' = FileAfterLoad(file, io)
        /\ IF file.st = "absent"
           THEN /\ transactions' = <<>>
                /\ corruptPending' = FALSE
                /\ phase' = IF SaveRaises(variant, io) THEN "new" ELSE "ready"
                /\ last' = Result("load",
                                  IF SaveRaises(variant, io) THEN "OSError" ELSE "ok",
                                  <<>>, <<>>, io)
           ELSE /\ transactions' = LoadedTransactions(file)
                /\ corruptPending' = LoadFailed(file)
                /\ phase' = "ready"
                /\ last' = Result("load", "ok", <<>>, <<>>, "none")
    /\ returned' = <<>>
    /\ UNCHANGED <<variant, pc, req, loc>>

\* FinanceManager.add_transaction, with the _save it ends in.
AddTransaction ==
    /\ phase = "ready"
    /\ Len(transactions) < MaxTx
    /\ \E inp \in AddInputs, io \in IoOutcomes :
        LET err == ValidationError(inp.type_, inp.amount, inp.date)
            new == NewTransaction(variant, transactions, inp.type_, inp.category,
                                  inp.description, inp.amount, inp.date, Today)
        IN  IF err # ""
            THEN /\ io = "ok"
                 /\ last' = Result("add", err, <<>>, <<inp>>, "none")
                 /\ UNCHANGED <<transactions, file, returned, corruptPending>>
            ELSE /\ transactions' = Append(transactions, new)
                 /\ file' = WrittenFile(file, transactions', io)
                 /\ IF SaveRaises(variant, io)
                    THEN /\ last' = Result("add", "OSError", <<>>, <<inp>>, io)
                         /\ returned' = returned
                    ELSE /\ last' = Result("add", "ok", <<new>>, <<inp>>, io)
                         /\ returned' = Append(returned, new.id)
                 /\ corruptPending' = (corruptPending /\ io = "open_fails")
    /\ UNCHANGED <<variant, phase, pc, req, loc>>

\* list_transactions: main.py takes the filter, main4.py takes no argument and
\* returns list(self.transactions).
ListTransactions ==
    /\ phase = "ready"
    /\ \E f \in Filters :
        /\ variant = "main4" => f = Filter(None, None, None, None)
        /\ LET filtered == list_transactions(transactions, f.start_date,
                                             f.end_date, f.type_, f.category)
           IN  /\ last' = Result("list", "ok", filtered, <<f>>, "none")
               /\ transactions' = TransactionsAfterList(transactions, filtered)
    /\ UNCHANGED <<variant, phase, file, returned, corruptPending, pc, req, loc>>

\* get_summary (main.py)
GetSummary ==
    /\ phase = "ready"
    /\ variant = "main"
    /\ last' = Result("summary", "ok", <<get_summary(transactions)>>, <<>>, "none")
    /\ UNCHANGED <<variant, phase, transactions, file, returned, corruptPending,
                   pc, req, loc>>

\* _monthly_summary (main4.py), as plot_linha_saldo_mensal calls it.
MonthlySummary ==
    /\ phase = "ready"
    /\ variant = "main4"
    /\ LET r == monthly_summary(transactions)
       IN  last' = Result("monthly", r.outcome, r.ret, <<>>, "none")
    /\ UNCHANGED <<variant, phase, transactions, file, returned, corruptPending,
                   pc, req, loc>>

\* category_expenses (main4.py), as plot_pizza_gastos_por_categoria calls it.
CategoryExpenses ==
    /\ phase = "ready"
    /\ variant = "main4"
    /\ last' = Result("categories", "ok", category_expenses(transactions), <<>>, "none")
    /\ UNCHANGED <<variant, phase, transactions, file, returned, corruptPending,
                   pc, req, loc>>

\* get_basic_stats (main4.py), as show_stats calls it.
GetBasicStats ==
    /\ phase = "ready"
    /\ variant = "main4"
    /\ LET r == get_basic_stats(transactions)
       IN  last' = Result("stats", r.outcome, r.ret, <<>>, "none")
    /\ UNCHANGED <<variant, phase, transactions, file, returned, corruptPending,
                   pc, req, loc>>

Next ==
    \/ Load
    \/ AddTransaction
    \/ ListTransactions
    \/ GetSummary
    \/ MonthlySummary
    \/ CategoryExpenses
    \/ GetBasicStats

Spec == Init /\ [][Next]_vars

\* ------------------------------------------- two callers of add_transaction

\* add_transaction holds no lock, so a second thread of a thread-per-request
\* host may run between any two of its statements.  Each thread makes one call;
\* pc is the statement it is about to execute.

InitConc ==
    /\ variant \in Variants
    /\ phase = "ready"
    /\ file \in {FileJson(<<>>), FileJson(<<GoodObj>>)}
    /\ transactions = LoadedTransactions(file)
    /\ last = Result("none", "ok", <<>>, <<>>, "none")
    /\ returned = <<>>
    /\ corruptPending = FALSE
    /\ pc = [t \in Threads |-> "idle"]
    /\ req = [t \in Threads |-> NoReq]
    /\ loc = [t \in Threads |-> NoLoc]

\* The call, with its arguments.
T_Call(t) ==
    /\ pc[t] = "idle"
    /\ \E inp \in AddInputs :
        req' = [req EXCEPT ![t] = inp]
    /\ pc' = [pc EXCEPT ![t] = "validate"]
    /\ UNCHANGED <<variant, phase, transactions, file, last, returned,
                   corruptPending, loc>>

\* The three checks: raise, or go on.
T_Validate(t) ==
    /\ pc[t] = "validate"
    /\ pc' = [pc EXCEPT ![t] =
                 IF ValidationError(req[t].type_, req[t].amount, req[t].date) # ""
                 THEN "raised" ELSE "new"]
    /\ UNCHANGED <<variant, phase, transactions, file, last, returned,
                   corruptPending, req, loc>>

\* new_transaction = Transaction(id=self._next_id(), ...)
T_New(t) ==
    /\ pc[t] = "new"
    /\ loc' = [loc EXCEPT ![t].tx =
                  <<NewTransaction(variant, transactions, req[t].type_,
                                   req[t].category, req[t].description,
                                   req[t].amount, req[t].date, Today)>>]
    /\ pc' = [pc EXCEPT ![t] = "append"]
    /\ UNCHANGED <<variant, phase, transactions, file, last, returned,
                   corruptPending, req>>

\* self.transactions.append(new_transaction)
T_Append(t) ==
    /\ pc[t] = "append"
    /\ transactions' = Append(transactions, loc[t].tx[1])
    /\ pc' = [pc EXCEPT ![t] = "dump"]
    /\ UNCHANGED <<variant, phase, file, last, returned, corruptPending, req, loc>>

\* _save: data = [asdict(t) for t in self.transactions]
T_Dump(t) ==
    /\ pc[t] = "dump"
    /\ loc' = [loc EXCEPT ![t].data =
                  [i \in 1..Len(transactions) |-> asdict(transactions[i])]]
    /\ pc' = [pc EXCEPT ![t] = "write"]
    /\ UNCHANGED <<variant, phase, transactions, file, last, returned,
                   corruptPending, req>>

\* _save: open("w") and json.dump(data, f), then return new_transaction
T_Write(t) ==
    /\ pc[t] = "write"
    /\ file' = FileJson(loc[t].data)
    /\ pc' = [pc EXCEPT ![t] = "done"]
    /\ UNCHANGED <<variant, phase, transactions, last, returned, corruptPending,
                   req, loc>>

NextConc ==
    \E t \in Threads :
        \/ T_Call(t)
        \/ T_Validate(t)
        \/ T_New(t)
        \/ T_Append(t)
        \/ T_Dump(t)
        \/ T_Write(t)

SpecConc == InitConc /\ [][NextConc]_vars

\* ----------------------------------------------------------------- claims

\* The call that has just ended was an add_transaction that returned a record.
AddReturned == last.op = "add" /\ last.outcome = "ok"

\* The largest id of a non-empty list, by its defining property.
LargestId(txs) ==
    LET ids == {txs[i].id : i \in 1..Len(txs)}
    IN  CHOOSE m \in ids : \A x \in ids : x <= m

\* The list as it was before the record just added was appended.
Before == SubSeq(transactions, 1, Len(transactions) - 1)

\* C1: the ids add_transaction returns to the callers of one store are strictly
\* increasing in call order (so pairwise distinct), and each is the largest id
\* the store held before the call plus one, or 1 when it held nothing.
C1_IdsIncreasing ==
    /\ \A i, j \in 1..Len(returned) : i < j => returned[i] < returned[j]
    /\ AddReturned =>
         /\ transactions # <<>>
         /\ transactions[Len(transactions)] = last.ret[1]
         /\ returned[Len(returned)] = last.ret[1].id
         /\ last.ret[1].id = IF Before = <<>> THEN 1 ELSE LargestId(Before) + 1

\* Two adds have returned on one store, the second on a list that held a record.
C1_Witness ==
    /\ AddReturned
    /\ Len(returned) = 2
    /\ Before # <<>>

\* The date texts of the inputs that are calendar dates in year-month-day form.
CalendarDateTexts == {D_2025_01_10, D_2025_01_15, D_2025_02_01, D_2025_1_5}

\* The arguments must be refused: the kind is neither "entrada" nor "saida"
\* (letter case aside), the amount is not positive, or a date is given that is
\* no calendar date.
MustBeRefused(inp) ==
    \/ Lower(inp.type_) # entrada /\ Lower(inp.type_) # saida
    \/ inp.amount <= 0
    \/ inp.date # None /\ inp.date \notin CalendarDateTexts

ValueErrors == {"ValueError: tipo", "ValueError: valor", "ValueError: data"}

\* C2: an add_transaction whose arguments must be refused ends in an error and
\* leaves the in-memory list and the file content exactly as they were.
C2_RefusedAddChangesNothing ==
    [][ (last'.op = "add" /\ MustBeRefused(last'.arg[1]))
          => /\ last'.outcome \in ValueErrors
             /\ last'.ret = <<>>
             /\ transactions' = transactions
             /\ file' = file ]_vars

\* An add with a date that is no calendar date was refused on a store that
\* holds a record and has a readable file.
C2_Witness ==
    /\ last.op = "add"
    /\ last.outcome = "ValueError: data"
    /\ transactions # <<>>
    /\ file.st = "json"

\* C3: once add_transaction has returned a record, loading the file gives a
\* list identical to the one in memory.
C3_AddThenLoadIsIdentity ==
    AddReturned => /\ ~LoadFailed(file)
                   /\ LoadedTransactions(file) = transactions

\* C4: an add_transaction whose write of the file failed ends in an error for
\* its caller (it returns no record), the list already holding the new record.
C4_SaveFailureSurfaced ==
    (last.op = "add" /\ last.io \in {"open_fails", "write_fails"})
        => /\ last.outcome = "OSError"
           /\ last.ret = <<>>
           /\ transactions # <<>>

\* The step is an add_transaction that got past its checks and so reached _save.
AddReachedSave == last'.op = "add" /\ last'.outcome \notin ValueErrors

\* The step is an add_transaction that returned a record.
AddSucceeded == last'.op = "add" /\ last'.outcome = "ok"

\* C5 as stated: a load that finds the file unreadable leaves it as found and
\* gives a store with an empty list, and until an add_transaction succeeds no
\* step (no query, no restart, no failed add) changes the file content.
C5_CorruptFileKeptUntilSuccess ==
    /\ [](corruptPending => phase = "ready")
    /\ []((corruptPending /\ last.op = "load") => transactions = <<>>)
    /\ [][ (last'.op = "load" /\ corruptPending') => file' = file ]_vars
    /\ [][ (corruptPending /\ ~AddSucceeded) => file' = file ]_vars

\* C5, amended: a load that finds the file unreadable leaves it as found and
\* gives a store with an empty list, and until an add_transaction passes its
\* checks and reaches the save no step (no query, no restart, no add refused
\* by the checks) changes the file content.
C5_CorruptFileKeptUntilSave ==
    /\ [](corruptPending => phase = "ready")
    /\ []((corruptPending /\ last.op = "load") => transactions = <<>>)
    /\ [][ (last'.op = "load" /\ corruptPending') => file' = file ]_vars
    /\ [][ (corruptPending /\ ~AddReachedSave) => file' = file ]_vars

\* A refused add after a load of the corrupt file: the file is as it was found.
C5_Witness ==
    /\ corruptPending
    /\ file = FileCorrupt
    /\ last.op = "add"
    /\ last.outcome = "ValueError: valor"

\* C6: every record of the store has a positive amount and the kind "entrada"
\* or "saida", and no two records share an id.
C6_RecordsValid ==
    /\ \A i \in 1..Len(transactions) :
           /\ transactions[i].amount > 0
           /\ transactions[i].type \in {entrada, saida}
    /\ \A i, j \in 1..Len(transactions) :
           i # j => transactions[i].id # transactions[j].id

\* C7: when both callers' add_transaction have returned, the list holds both
\* new records under different ids and the file holds the whole list.
C7_ConcurrentAddsSerialized ==
    (pc[1] = "done" /\ pc[2] = "done")
        => /\ loc[1].tx[1].id # loc[2].tx[1].id
           /\ \A t \in Threads :
                  \E i \in 1..Len(transactions) : transactions[i] = loc[t].tx[1]
           /\ file = FileJson([i \in 1..Len(transactions) |-> asdict(transactions[i])])

\* The sum of the amounts at the positions I of txs.
RECURSIVE AmountAt(_, _)
AmountAt(txs, I) ==
    IF I = {} THEN 0
    ELSE LET i == CHOOSE x \in I : TRUE
         IN  txs[i].amount + AmountAt(txs, I \ {i})

PositionsOfType(txs, type) == {i \in 1..Len(txs) : txs[i].type = type}

\* C8: get_summary returns the sum of the income amounts, the sum of the
\* expense amounts, their difference as saldo and the number of records; all
\* four are 0 on an empty store.
C8_SummaryTotals ==
    last.op = "summary" =>
        LET r == last.ret[1]
            inc == AmountAt(transactions, PositionsOfType(transactions, entrada))
            exp == AmountAt(transactions, PositionsOfType(transactions, saida))
        IN  /\ r.total_entradas = inc
            /\ r.total_saidas = exp
            /\ r.saldo = inc - exp
            /\ r.qtd_transacoes = Cardinality(1..Len(transactions))
            /\ transactions = <<>> =>
                   r = [total_entradas |-> 0, total_saidas |-> 0, saldo |-> 0,
                        qtd_transacoes |-> 0]

\* A summary of a store that holds income and expense.
C8_Witness ==
    /\ last.op = "summary"
    /\ last.ret[1].total_entradas > 0
    /\ last.ret[1].total_saidas > 0
    /\ last.ret[1].saldo # 0

\* The month of a stored date, as year * 100 + month; -1 when it is no date.
MonthOf(date) ==
    IF date \in CalendarDateTexts \cup {Today}
    THEN LET f == IF Len(date) = 10 THEN SubSeq(date, 6, 7) ELSE <<"0", date[6]>>
         IN  DigitsValue(SubSeq(date, 1, 4)) * 100 + DigitsValue(f)
    ELSE 0 - 1

KeyMonth(mes) == DigitsValue(SubSeq(mes, 1, 4)) * 100 + DigitsValue(SubSeq(mes, 6, 7))

\* C9: the monthly breakdown has exactly one key per distinct month of the
\* records' dates, in ascending order, and under each key the sums of that
\* month's income and expense amounts and their difference.
C9_MonthlyBreakdown ==
    last.op = "monthly" =>
        LET r == last.ret
            months == {MonthOf(transactions[i].date) : i \in 1..Len(transactions)}
            at(k, type) == {i \in PositionsOfType(transactions, type) :
                               MonthOf(transactions[i].date) = k}
        IN  /\ last.outcome = "ok"
            /\ {KeyMonth(r[i].mes) : i \in 1..Len(r)} = months
            /\ \A i, j \in 1..Len(r) : i < j => KeyMonth(r[i].mes) < KeyMonth(r[j].mes)
            /\ \A i \in 1..Len(r) :
                   /\ r[i].entradas = AmountAt(transactions, at(KeyMonth(r[i].mes), entrada))
                   /\ r[i].saidas = AmountAt(transactions, at(KeyMonth(r[i].mes), saida))
                   /\ r[i].saldo = r[i].entradas - r[i].saidas

\* The day of a date text as a number that orders dates; -1 when it is no date.
DayNumber(date) ==
    IF date # None /\ strptime(date).ok
    THEN strptime(date).y * 10000 + strptime(date).m * 100 + strptime(date).d
    ELSE 0 - 1

\* The record satisfies every predicate the filter supplies.  A bound that is
\* no date is taken as not supplied; a record whose date is no date is on
\* neither side of a bound.
Satisfies(t, f) ==
    /\ DayNumber(f.start_date) >= 0 =>
           DayNumber(t.date) >= DayNumber(f.start_date)
    /\ DayNumber(f.end_date) >= 0 =>
           (DayNumber(t.date) >= 0 /\ DayNumber(t.date) <= DayNumber(f.end_date))
    /\ f.type_ # None => t.type = f.type_
    /\ f.category # None => Lower(t.category) = Lower(f.category)

\* C10: list_transactions returns exactly the records that satisfy every
\* supplied predicate, in insertion order.
C10_ListIsExactFilter ==
    (last.op = "list" /\ variant = "main") =>
        LET f == last.arg[1]
            keep(t) == Satisfies(t, f)
        IN  last.ret = SelectSeq(transactions, keep)

\* The calls that only read: list_transactions, get_summary, _monthly_summary,
\* category_expenses and get_basic_stats.
QueryOps == {"list", "summary", "monthly", "categories", "stats"}

StoreChanged == transactions' # transactions \/ file' # file

\* C11 as stated: no query changes the in-memory list or the file, and after
\* start-up only an add_transaction that succeeds changes either.
C11_OnlySuccessfulAddMutates ==
    /\ [][ last'.op \in QueryOps => ~StoreChanged ]_vars
    /\ [][ StoreChanged => (last'.op = "load" \/ AddSucceeded) ]_vars

\* C11, amended: no query changes the in-memory list or the file, whether it
\* returns or raises, and after start-up only an add_transaction that has
\* passed its checks changes either (also one whose save then fails).
C11_OnlyValidatedAddMutates ==
    /\ [][ last'.op \in QueryOps => ~StoreChanged ]_vars
    /\ [][ StoreChanged => (last'.op = "load" \/ AddReachedSave) ]_vars

\* A query has run on a store of two records whose file holds both.
C11_Witness ==
    /\ last.op \in QueryOps
    /\ last.ret # <<>>
    /\ Len(transactions) = 2
    /\ file = FileJson([i \in 1..Len(transactions) |-> asdict(transactions[i])])

\* The sum of the totals at the positions I of a breakdown.
RECURSIVE TotalAt(_, _)
TotalAt(items, I) ==
    IF I = {} THEN 0
    ELSE LET i == CHOOSE x \in I : TRUE
         IN  items[i].total + TotalAt(items, I \ {i})

\* C12: category_expenses has one key per category string found on an expense
\* record (letter case kept), none for a category found on income records
\* only; each value is the sum of the expense amounts of exactly that
\* category, and the values add up to the total expense.
C12_CategoryExpenses ==
    last.op = "categories" =>
        LET r == last.ret
            exp == PositionsOfType(transactions, saida)
            cats == {transactions[i].category : i \in exp}
        IN  /\ {r[i].key : i \in 1..Len(r)} = cats
            /\ Len(r) = Cardinality(cats)
            /\ \A i \in 1..Len(r) :
                   r[i].total =
                       AmountAt(transactions,
                                {j \in exp : transactions[j].category = r[i].key})
            /\ TotalAt(r, 1..Len(r)) = AmountAt(transactions, exp)

\* The breakdown of a store with expenses under "Food" and under "food".
C12_Witness ==
    /\ last.op = "categories"
    /\ {last.ret[i].key : i \in 1..Len(last.ret)} = {Food, food}

\* q is the quotient a / b.
IsQuotient(q, a, b) == q.den > 0 /\ q.num * b = a * q.den

\* The expense total of month k.
ExpenseOfMonth(k) ==
    AmountAt(transactions,
             {i \in PositionsOfType(transactions, saida) :
                  MonthOf(transactions[i].date) = k})

RECURSIVE SumOverMonths(_)
SumOverMonths(K) ==
    IF K = {} THEN 0
    ELSE LET k == CHOOSE x \in K : TRUE
         IN  ExpenseOfMonth(k) + SumOverMonths(K \ {k})

\* media_gasto_transacao is the total expense over the number of expense
\* records, 0 when there is none.
MeanPerExpenseRight(r) ==
    LET exp == PositionsOfType(transactions, saida)
    IN  IF exp = {} THEN r.media_gasto_transacao.num = 0
        ELSE IsQuotient(r.media_gasto_transacao, AmountAt(transactions, exp),
                        Cardinality(exp))

\* media_gasto_mensal is the average of the months' expense totals over the
\* months K, 0 when K is empty.
MeanPerMonthOver(r, K) ==
    IF K = {} THEN r.media_gasto_mensal.num = 0
    ELSE IsQuotient(r.media_gasto_mensal, SumOverMonths(K), Cardinality(K))

\* C13 as stated: get_basic_stats returns the average of the months' expense
\* totals over the months of the monthly breakdown (the months of the records'
\* dates), and the total expense over the number of expense records.
C13_MeansOverBreakdownMonths ==
    last.op = "stats" =>
        /\ last.outcome = "ok"
        /\ MeanPerExpenseRight(last.ret[1])
        /\ MeanPerMonthOver(last.ret[1],
               {MonthOf(transactions[i].date) : i \in 1..Len(transactions)})

\* C13, amended: the months averaged over are those of the expense records
\* only (a month with income alone is not counted), 0 when there is no
\* expense; and the call raises ValueError instead of returning exactly when
\* the stored date of an expense record is no calendar date.
C13_MeansOverExpenseMonths ==
    last.op = "stats" =>
        LET exp == PositionsOfType(transactions, saida)
            K == {MonthOf(transactions[i].date) : i \in exp}
        IN  IF \E k \in K : k < 0
            THEN last.outcome = "ValueError" /\ last.ret = <<>>
            ELSE /\ last.outcome = "ok"
                 /\ MeanPerExpenseRight(last.ret[1])
                 /\ MeanPerMonthOver(last.ret[1], K)

\* Statistics of a store with income in one month and an expense in another.
C13_Witness ==
    /\ last.op = "stats"
    /\ last.outcome = "ok"
    /\ last.ret[1].total_receitas > 0
    /\ last.ret[1].total_despesas > 0
    /\ Cardinality({MonthOf(transactions[i].date) : i \in 1..Len(transactions)}) = 2
    /\ last.ret[1].media_gasto_mensal.den = 1

====
